---- MODULE Spec2Model ----
(***************************************************************************)
(* Rules code of the chess project: the Pawn and Knight movement           *)
(* predicates (pieces/pawn.py, pieces/knight.py), the Piece attribute      *)
(* setters (piece.py, pieces/piece.py) and the promotion dialog            *)
(* (ui/promotion_ui.py).  Board, GameEngine and ChessGame are not part of  *)
(* the sources at hand; the little of them the predicates read (piece_at,  *)
(* can_capture_or_occupy_square, last_move) and the commit step that       *)
(* produces the positions are modelled from the specification.             *)
(***************************************************************************)
EXTENDS Integers, Sequences, FiniteSets, TLC

VARIABLES
    pieces,              \* piece id -> attributes of the Piece object
    board,               \* <<x, y>> -> piece id or NoPiece
    last_move,           \* NoMove or <<piece id, start, end>>
    history,             \* sequence of committed moves
    white_to_move,       \* the turn
    awaiting,            \* NoMove or <<pawn id, start, end>>: AwaitingPromotion
    selected_promotion,  \* PromotionUI._selected_promotion
    window,              \* the Toplevel of the dialog: "none", "open", "destroyed"
    after,               \* number of wait_for_promotion callbacks scheduled with root.after
    ui_pawn,             \* the pawn the dialog was constructed for
    promote_calls,       \* calls of game_state.promote made by the dialog
    result,              \* what the most recent predicate or setter call returned
    setter_calls         \* attribute assignments made by callers so far

gameVars == <<pieces, board, last_move, history, white_to_move, awaiting>>
uiVars == <<selected_promotion, window, after, ui_pawn, promote_calls>>
vars == <<pieces, board, last_move, history, white_to_move, awaiting,
          selected_promotion, window, after, ui_pawn, promote_calls,
          result, setter_calls>>

----------------------------------------------------------------------------
(* Bounds of the model *)

\* committed moves explored from each starting position
MaxMoves == 2

\* committed moves before the predicates are called from outside the engine
MaxMovesBeforeCall == 1

\* attribute assignments made through the setters of a piece
MaxSetterCalls == 2

----------------------------------------------------------------------------
(* Values *)

BoardSize == 8
Coords == 0 .. (BoardSize - 1)
Squares == Coords \X Coords

NoPiece == "None"
NoMove == <<>>
NoSelection == "None"
NoResult == "None"

Abs(n) == IF n < 0 THEN -n ELSE n

\* pieces = ['Queen', 'Rook', 'Bishop', 'Knight']
PromotionPieces == {"Queen", "Rook", "Bishop", "Knight"}

----------------------------------------------------------------------------
(* Board and Piece helpers the predicates call *)

piece_at(x, y) == board[<<x, y>>]

can_capture_or_occupy_square(self, x, y) ==
    LET piece == piece_at(x, y)
    IN  IF piece = NoPiece THEN TRUE
        ELSE pieces[piece].is_white # pieces[self].is_white

\* the two directions exchanged
direction_exchanged(self) == IF pieces[self].team = "ALLY" THEN 1 ELSE -1

\* the direction taken from the colour in place of the team
direction_by_colour(self) == IF pieces[self].is_white THEN -1 ELSE 1

\* direction = -1 if self.team == TeamType.ALLY else 1
direction(self) == IF pieces[self].team = "ALLY" THEN -1 ELSE 1

----------------------------------------------------------------------------
(* pieces/pawn.py *)

\* _moving_forward with the look at the square stepped over left out
_moving_forward_jumping(self, px, py, x, y) ==
    LET dx == x - px
        dy == y - py
        is_in_starting_position ==
            IF pieces[self].team = "ALLY" THEN py = 6 ELSE py = 1
    IN  IF dx = 0 /\ dy = direction(self) /\ piece_at(x, y) = NoPiece
        THEN TRUE
        ELSE IF /\ dx = 0
                /\ is_in_starting_position
                /\ dy = 2 * direction(self)
                /\ piece_at(x, y) = NoPiece
        THEN TRUE
        ELSE FALSE

_moving_forward(self, px, py, x, y) ==
    LET dx == x - px
        dy == y - py
        is_in_starting_position ==
            IF pieces[self].team = "ALLY" THEN py = 6 ELSE py = 1
    IN  IF dx = 0 /\ dy = direction(self) /\ piece_at(x, y) = NoPiece
        THEN TRUE
        ELSE IF /\ dx = 0
                /\ is_in_starting_position
                /\ dy = 2 * direction(self)
                /\ piece_at(x, y) = NoPiece
                /\ piece_at(px, py + direction(self)) = NoPiece
        THEN TRUE
        ELSE FALSE

\* _capturing with the colour of the piece taken left unchecked
_capturing_any_piece(self, px, py, x, y) ==
    LET dx == x - px
        dy == y - py
    IN  /\ Abs(dx) = 1 /\ dy = direction(self)
        /\ piece_at(x, y) # NoPiece

_capturing(self, px, py, x, y) ==
    LET dx == x - px
        dy == y - py
    IN  /\ Abs(dx) = 1 /\ dy = direction(self)
        /\ piece_at(x, y) # NoPiece
        /\ can_capture_or_occupy_square(self, x, y)

\* en_passant with the side of the capture left unchecked
en_passant_either_side(self, px, py, x, y) ==
    LET dx == x - px
        dy == y - py
        capture_rank == IF pieces[self].team = "ALLY" THEN 3 ELSE 4
    IN  IF last_move = NoMove THEN FALSE
        ELSE
        LET last_piece_moved == last_move[1]
            last_start_pos == last_move[2]
            last_end_pos == last_move[3]
        IN  IF pieces[last_piece_moved].type # "Pawn" THEN FALSE
            ELSE IF pieces[self].is_white = pieces[last_piece_moved].is_white THEN FALSE
            ELSE
            LET is_on_same_row == last_end_pos[2] = py
                is_directly_next_to_pawn == Abs(last_end_pos[1] - px) = 1
            IN  /\ is_on_same_row /\ is_directly_next_to_pawn
                /\ last_start_pos[2] - last_end_pos[2] = 2 * direction(self)
                /\ py = capture_rank
                /\ dy = direction(self)
                /\ Abs(dx) = 1

en_passant(self, px, py, x, y) ==
    LET dx == x - px
        dy == y - py
        capture_rank == IF pieces[self].team = "ALLY" THEN 3 ELSE 4
    IN  IF last_move = NoMove THEN FALSE
        ELSE
        LET last_piece_moved == last_move[1]
            last_start_pos == last_move[2]
            last_end_pos == last_move[3]
        IN  IF pieces[last_piece_moved].type # "Pawn" THEN FALSE
            ELSE IF pieces[self].is_white = pieces[last_piece_moved].is_white THEN FALSE
            ELSE
            LET is_on_same_row == last_end_pos[2] = py
                is_directly_next_to_pawn == Abs(last_end_pos[1] - px) = 1
            IN  /\ is_on_same_row /\ is_directly_next_to_pawn
                /\ last_start_pos[2] - last_end_pos[2] = 2 * direction(self)
                /\ py = capture_rank
                /\ dy = direction(self)
                /\ dx = last_end_pos[1] - px

Pawn_legal_move(self, px, py, x, y) ==
    \/ _moving_forward(self, px, py, x, y)
    \/ _capturing(self, px, py, x, y)
    \/ en_passant(self, px, py, x, y)

Pawn_is_controlled_square(self, current_x, current_y, target_x, target_y) ==
    LET dx == target_x - current_x
        dy == target_y - current_y
        is_capture_square ==
            /\ Abs(dx) = 1 /\ dy = direction(self)
            /\ can_capture_or_occupy_square(self, target_x, target_y)
    IN  is_capture_square \/ en_passant(self, current_x, current_y, target_x, target_y)

----------------------------------------------------------------------------
(* pieces/knight.py *)

\* Knight.legal_move with one of the two shapes of the jump forgotten
Knight_legal_move_one_shape(self, px, py, x, y) ==
    LET dx == Abs(x - px)
        dy == Abs(y - py)
    IN  /\ dx = 2 /\ dy = 1
        /\ can_capture_or_occupy_square(self, x, y)

Knight_legal_move(self, px, py, x, y) ==
    LET dx == Abs(x - px)
        dy == Abs(y - py)
    IN  /\ (dx = 2 /\ dy = 1) \/ (dx = 1 /\ dy = 2)
        /\ can_capture_or_occupy_square(self, x, y)

----------------------------------------------------------------------------
(* Piece construction: pieces/piece.py __init__ (x, y, team, is_white,     *)
(* symbol, type) and piece.py __init__ (captured, moves_made)              *)

Piece__init__(x, y, team, is_white, symbol, type) ==
    [x |-> x, y |-> y, team |-> team, is_white |-> is_white,
     symbol |-> symbol, type |-> type, captured |-> FALSE, moves_made |-> 0]

Pawn__init__(x, y, team, is_white) ==
    Piece__init__(x, y, team, is_white, IF is_white THEN "P" ELSE "p", "Pawn")

Knight__init__(x, y, team, is_white) ==
    Piece__init__(x, y, team, is_white, IF is_white THEN "N" ELSE "n", "Knight")

\* the team of a colour: white plays from the bottom (ALLY), black from the top
TeamOf(is_white) == IF is_white THEN "ALLY" ELSE "OPPONENT"

\* the other piece kinds have no movement code here; they only occupy squares
Other__init__(x, y, is_white, symbol, type) ==
    Piece__init__(x, y, TeamOf(is_white), is_white, symbol, type)

----------------------------------------------------------------------------
(* Starting positions: both kings castled short, the queen's knights at    *)
(* home, and one pawn a side on any rank a pawn can stand on: the white    *)
(* pawn on file 4, the black pawn on file 3 or 4.                          *)

WhitePawnSquares == {4} \X (1 .. 6)
BlackPawnSquares == {3, 4} \X (1 .. 6)

Setup(wp, bp) ==
    [id \in {"wP", "bP", "wN", "bN", "wK", "bK"} |->
        CASE id = "wP" -> Pawn__init__(wp[1], wp[2], TeamOf(TRUE), TRUE)
          [] id = "bP" -> Pawn__init__(bp[1], bp[2], TeamOf(FALSE), FALSE)
          [] id = "wN" -> Knight__init__(1, 7, TeamOf(TRUE), TRUE)
          [] id = "bN" -> Knight__init__(1, 0, TeamOf(FALSE), FALSE)
          [] id = "wK" -> Other__init__(6, 7, TRUE, "K", "King")
          [] id = "bK" -> Other__init__(6, 0, FALSE, "k", "King")]

\* Board.place of every piece of a setup
Place(ps) ==
    [sq \in Squares |->
        IF \E id \in DOMAIN ps : <<ps[id].x, ps[id].y>> = sq
        THEN CHOOSE id \in DOMAIN ps : <<ps[id].x, ps[id].y>> = sq
        ELSE NoPiece]

Init ==
    /\ \E wp \in WhitePawnSquares, bp \in BlackPawnSquares :
          /\ wp # bp
          /\ pieces = Setup(wp, bp)
          /\ board = Place(Setup(wp, bp))
    /\ last_move = NoMove
    /\ history = <<>>
    /\ white_to_move \in BOOLEAN
    /\ awaiting = NoMove
    /\ selected_promotion = NoSelection
    /\ window = "none"
    /\ after = 0
    /\ ui_pawn = NoPiece
    /\ promote_calls = <<>>
    /\ result = NoResult
    /\ setter_calls = 0

----------------------------------------------------------------------------
(* GameEngine: attemptMove, steps 1, 2, 4 and 5 *)

\* dynamic dispatch of legal_move over the piece kinds with movement code
legal_move(self, px, py, x, y) ==
    CASE pieces[self].type = "Pawn" -> Pawn_legal_move(self, px, py, x, y)
      [] pieces[self].type = "Knight" -> Knight_legal_move(self, px, py, x, y)
      [] OTHER -> FALSE

\* the farthest rank of a pawn
promotion_rank(self) == IF pieces[self].team = "ALLY" THEN 0 ELSE BoardSize - 1

\* the piece a move to (x, y) takes: the occupant of the destination, or the
\* pawn that has just passed when the move is an en passant capture
captured_by(self, px, py, x, y) ==
    IF piece_at(x, y) # NoPiece THEN piece_at(x, y)
    ELSE IF pieces[self].type = "Pawn" /\ en_passant(self, px, py, x, y)
    THEN last_move[1]
    ELSE NoPiece

\* a king is never captured: the game has ended before a king can be taken
takes_king(self, px, py, x, y) ==
    IF captured_by(self, px, py, x, y) = NoPiece THEN FALSE
    ELSE pieces[captured_by(self, px, py, x, y)].type = "King"

\* step 5: occupancy, captured flag, moves-made, history, last move, turn;
\* arrival is the piece that stands on the destination afterwards
commit(self, arrival, arrived, px, py, x, y) ==
    LET taken == captured_by(self, px, py, x, y)
        cleared == {<<px, py>>} \cup
                   (IF taken = NoPiece THEN {}
                    ELSE {<<pieces[taken].x, pieces[taken].y>>})
    IN  /\ board' = [sq \in Squares |->
                        IF sq = <<x, y>> THEN arrival
                        ELSE IF sq \in cleared THEN NoPiece
                        ELSE board[sq]]
        /\ pieces' = [id \in DOMAIN pieces \cup {arrival} |->
                        IF id = arrival THEN arrived
                        ELSE IF id = taken \/ id = self
                        THEN [pieces[id] EXCEPT !.captured = TRUE]
                        ELSE pieces[id]]
        /\ last_move' = <<self, <<px, py>>, <<x, y>>>>
        /\ history' = Append(history, <<self, <<px, py>>, <<x, y>>>>)
        /\ white_to_move' = ~white_to_move

\* PromotionUI.__init__
PromotionUI__init__(pawn) ==
    /\ selected_promotion' = NoSelection
    /\ window' = "open"
    /\ after' = 1
    /\ ui_pawn' = pawn
    /\ promote_calls' = <<>>

attemptMove(self, x, y) ==
    LET px == pieces[self].x
        py == pieces[self].y
    IN  /\ awaiting = NoMove
        /\ Len(history) < MaxMoves
        /\ ~pieces[self].captured
        /\ pieces[self].is_white = white_to_move
        /\ legal_move(self, px, py, x, y)
        /\ ~takes_king(self, px, py, x, y)
        /\ IF pieces[self].type = "Pawn" /\ y = promotion_rank(self)
           THEN /\ awaiting' = <<self, <<px, py>>, <<x, y>>>>
                /\ PromotionUI__init__(self)
                /\ UNCHANGED <<pieces, board, last_move, history, white_to_move>>
           ELSE /\ commit(self, self,
                          [pieces[self] EXCEPT !.x = x, !.y = y,
                                               !.moves_made = @ + 1],
                          px, py, x, y)
                /\ UNCHANGED <<awaiting, uiVars>>
        /\ result' = NoResult
        /\ UNCHANGED setter_calls

MovePiece == \E self \in DOMAIN pieces, x \in Coords, y \in Coords : attemptMove(self, x, y)

----------------------------------------------------------------------------
(* ui/promotion_ui.py and the promotion it resumes *)

\* the object a promotion creates in place of the pawn
promoted_id(pawn) == IF pieces[pawn].is_white THEN "wX" ELSE "bX"

\* game_state.promote(pawn, promotion_piece): the held move commits with a new
\* piece of the chosen class on the destination and the pawn marked captured
promote(pawn, promotion_piece) ==
    /\ awaiting # NoMove
    /\ awaiting[1] = pawn
    /\ commit(pawn, promoted_id(pawn),
              Other__init__(awaiting[3][1], awaiting[3][2], pieces[pawn].is_white,
                            promotion_piece, promotion_piece),
              awaiting[2][1], awaiting[2][2], awaiting[3][1], awaiting[3][2])
    /\ awaiting' = NoMove

\* select_piece, the command of the four buttons of the dialog
select_piece(piece_selected) ==
    /\ window = "open"
    /\ selected_promotion' = piece_selected
    /\ window' = "destroyed"
    /\ UNCHANGED <<gameVars, after, ui_pawn, promote_calls>>
    /\ result' = NoResult
    /\ UNCHANGED setter_calls

\* the dialog is a plain Toplevel: closing it destroys it and selects nothing
close_window ==
    /\ window = "open"
    /\ window' = "destroyed"
    /\ UNCHANGED <<gameVars, selected_promotion, after, ui_pawn, promote_calls>>
    /\ result' = NoResult
    /\ UNCHANGED setter_calls

\* wait_for_promotion without the test for a selection
wait_for_promotion_unchecked(pawn) ==
    /\ after > 0
    /\ pawn = ui_pawn
    /\ after' = after - 1
    /\ selected_promotion' = NoSelection
    /\ promote(pawn, selected_promotion)
    /\ promote_calls' = Append(promote_calls, <<pawn, selected_promotion>>)
    /\ UNCHANGED <<window, ui_pawn>>
    /\ result' = NoResult
    /\ UNCHANGED setter_calls

\* wait_for_promotion that does not schedule itself again
wait_for_promotion_once(pawn) ==
    /\ after > 0
    /\ pawn = ui_pawn
    /\ IF selected_promotion = NoSelection
       THEN /\ after' = after - 1
            /\ UNCHANGED <<gameVars, selected_promotion, promote_calls>>
       ELSE /\ after' = after - 1
            /\ selected_promotion' = NoSelection
            /\ promote(pawn, selected_promotion)
            /\ promote_calls' = Append(promote_calls, <<pawn, selected_promotion>>)
    /\ UNCHANGED <<window, ui_pawn>>
    /\ result' = NoResult
    /\ UNCHANGED setter_calls

\* one run of the callback scheduled with root.after(100, ...)
wait_for_promotion(pawn) ==
    /\ after > 0
    /\ pawn = ui_pawn
    /\ IF selected_promotion = NoSelection
       THEN /\ after' = (after - 1) + 1
            /\ UNCHANGED <<gameVars, selected_promotion, promote_calls>>
       ELSE /\ after' = after - 1
            /\ selected_promotion' = NoSelection
            /\ promote(pawn, selected_promotion)
            /\ promote_calls' = Append(promote_calls, <<pawn, selected_promotion>>)
    /\ UNCHANGED <<window, ui_pawn>>
    /\ result' = NoResult
    /\ UNCHANGED setter_calls

SelectPiece == \E piece_selected \in PromotionPieces : select_piece(piece_selected)

Poll == \E pawn \in DOMAIN pieces : wait_for_promotion(pawn)

----------------------------------------------------------------------------
(* Calls of the predicates: what a call returns, and what it leaves alone *)

\* bool as Python prints it
PyBool(b) == IF b THEN "True" ELSE "False"

\* a legal_move that tries the move on the board and leaves it there
Pawn_legal_move_call_trying(self, x, y) ==
    /\ pieces[self].type = "Pawn" /\ ~pieces[self].captured
    /\ result' = PyBool(Pawn_legal_move(self, pieces[self].x, pieces[self].y, x, y))
    /\ board' = [board EXCEPT ![<<pieces[self].x, pieces[self].y>>] = NoPiece,
                              ![<<x, y>>] = self]
    /\ UNCHANGED <<pieces, last_move, history, white_to_move, awaiting, uiVars, setter_calls>>

\* piece.legal_move(piece.x, piece.y, x, y, chess_game) of a Pawn
Pawn_legal_move_call(self, x, y) ==
    /\ pieces[self].type = "Pawn" /\ ~pieces[self].captured
    /\ result' = PyBool(Pawn_legal_move(self, pieces[self].x, pieces[self].y, x, y))
    /\ UNCHANGED <<gameVars, uiVars, setter_calls>>

\* piece.legal_move(piece.x, piece.y, x, y, chess_game) of a Knight
Knight_legal_move_call(self, x, y) ==
    /\ pieces[self].type = "Knight" /\ ~pieces[self].captured
    /\ result' = PyBool(Knight_legal_move(self, pieces[self].x, pieces[self].y, x, y))
    /\ UNCHANGED <<gameVars, uiVars, setter_calls>>

\* piece.is_controlled_square(piece.x, piece.y, x, y, chess_game) of a Pawn
Pawn_is_controlled_square_call(self, x, y) ==
    /\ pieces[self].type = "Pawn" /\ ~pieces[self].captured
    /\ result' = PyBool(Pawn_is_controlled_square(self, pieces[self].x, pieces[self].y, x, y))
    /\ UNCHANGED <<gameVars, uiVars, setter_calls>>

CallPredicate ==
    \E self \in DOMAIN pieces, x \in Coords, y \in Coords :
        \/ Pawn_legal_move_call(self, x, y)
        \/ Knight_legal_move_call(self, x, y)
        \/ Pawn_is_controlled_square_call(self, x, y)

----------------------------------------------------------------------------
(* piece.py: the attribute setters *)

\* Python values a caller can assign: ints, bools (a bool is an int) and a str
PyValues ==
    [type : {"int"}, value : {-1, 0, 1, 2, 7, 8}] \cup
    [type : {"bool"}, value : {0, 1}] \cup
    [type : {"str"}, value : {0}]

\* isinstance(value, int)
isinstance_int(value) == value.type \in {"int", "bool"}

\* type(value) == bool
type_is_bool(value) == value.type = "bool"

\* @is_white.setter
set_is_white(self, value) ==
    /\ IF type_is_bool(value)
       THEN /\ pieces' = [pieces EXCEPT ![self].is_white = (value.value = 1)]
            /\ result' = NoResult
       ELSE /\ result' = "TypeError"
            /\ UNCHANGED pieces

\* @captured.setter
set_captured(self, value) ==
    /\ IF type_is_bool(value)
       THEN /\ pieces' = [pieces EXCEPT ![self].captured = (value.value = 1)]
            /\ result' = NoResult
       ELSE /\ result' = "TypeError"
            /\ UNCHANGED pieces

\* @moves_made.setter
set_moves_made(self, value) ==
    /\ IF isinstance_int(value)
       THEN /\ pieces' = [pieces EXCEPT ![self].moves_made = value.value]
            /\ result' = NoResult
       ELSE /\ result' = "TypeError"
            /\ UNCHANGED pieces

(* pieces/piece.py: the coordinate setters and the constructor *)

\* @x.setter
set_x(self, value) ==
    /\ IF ~isinstance_int(value)
       THEN /\ result' = "TypeError"
            /\ UNCHANGED pieces
       ELSE IF ~(0 <= value.value /\ value.value < BoardSize)
       THEN /\ result' = "ValueError"
            /\ UNCHANGED pieces
       ELSE /\ pieces' = [pieces EXCEPT ![self].x = value.value]
            /\ result' = NoResult

\* @y.setter
set_y(self, value) ==
    /\ IF ~isinstance_int(value)
       THEN /\ result' = "TypeError"
            /\ UNCHANGED pieces
       ELSE IF ~(0 <= value.value /\ value.value < BoardSize)
       THEN /\ result' = "ValueError"
            /\ UNCHANGED pieces
       ELSE /\ pieces' = [pieces EXCEPT ![self].y = value.value]
            /\ result' = NoResult

Assign ==
    /\ setter_calls < MaxSetterCalls
    /\ setter_calls' = setter_calls + 1
    /\ \E self \in DOMAIN pieces, value \in PyValues :
          \/ set_is_white(self, value)
          \/ set_captured(self, value)
          \/ set_moves_made(self, value)
          \/ set_x(self, value)
          \/ set_y(self, value)
    /\ UNCHANGED <<board, last_move, history, white_to_move, awaiting, uiVars>>

\* the integers a caller passes as coordinates
IntValues == {value.value : value \in {v \in PyValues : v.type = "int"}}

\* a caller constructs one more pawn: Pawn(x, y, team, is_white); __init__
\* stores the coordinates it is given
Construct ==
    /\ setter_calls < MaxSetterCalls
    /\ setter_calls' = setter_calls + 1
    /\ "nP" \notin DOMAIN pieces
    /\ \E x \in IntValues, y \in IntValues, team \in {"ALLY", "OPPONENT"}, is_white \in BOOLEAN :
          pieces' = [self \in DOMAIN pieces \cup {"nP"} |->
                        IF self = "nP" THEN Pawn__init__(x, y, team, is_white)
                                       ELSE pieces[self]]
    /\ result' = NoResult
    /\ UNCHANGED <<board, last_move, history, white_to_move, awaiting, uiVars>>

----------------------------------------------------------------------------
(* Specifications *)

\* the game: moves and promotions from the starting positions
Next ==
    \/ MovePiece
    \/ SelectPiece
    \/ close_window
    \/ Poll

Spec == Init /\ [][Next]_vars

\* the predicates called in the positions of the first moves; Tk runs every
\* callback scheduled with root.after, so the poll is weakly fair
CallNext ==
    \/ Len(history) < MaxMovesBeforeCall /\ MovePiece
    \/ SelectPiece
    \/ close_window
    \/ Poll
    \/ CallPredicate

CallSpec == Init /\ [][CallNext]_vars /\ WF_vars(Poll)

\* the game with either colour at the bottom: the pieces of a starting
\* position constructed on the mirrored ranks with the team labels exchanged
Mirror(ps) ==
    [id \in DOMAIN ps |->
        Piece__init__(ps[id].x, BoardSize - 1 - ps[id].y,
                      IF ps[id].team = "ALLY" THEN "OPPONENT" ELSE "ALLY",
                      ps[id].is_white, ps[id].symbol, ps[id].type)]

TeamInit ==
    /\ \E wp \in WhitePawnSquares, bp \in BlackPawnSquares, white_is_ally \in BOOLEAN :
          LET ps == IF white_is_ally THEN Setup(wp, bp) ELSE Mirror(Setup(wp, bp))
          IN  /\ wp # bp
              /\ pieces = ps
              /\ board = Place(ps)
    /\ last_move = NoMove
    /\ history = <<>>
    /\ white_to_move \in BOOLEAN
    /\ awaiting = NoMove
    /\ selected_promotion = NoSelection
    /\ window = "none"
    /\ after = 0
    /\ ui_pawn = NoPiece
    /\ promote_calls = <<>>
    /\ result = NoResult
    /\ setter_calls = 0

TeamSpec == TeamInit /\ [][Next]_vars

\* the attributes of the pieces of one starting position assigned from outside
SetterInit == Init /\ pieces = Setup(<<4, 6>>, <<3, 1>>) /\ white_to_move

SetterNext ==
    \/ Assign
    \/ Construct

SetterSpec == SetterInit /\ [][SetterNext]_vars

----------------------------------------------------------------------------
(* Vocabulary of the claims *)

OnBoard(type) == {id \in DOMAIN pieces : pieces[id].type = type /\ ~pieces[id].captured}

Empty(x, y) == board[<<x, y>>] = NoPiece

OwnColourAt(self, x, y) ==
    IF Empty(x, y) THEN FALSE
    ELSE pieces[board[<<x, y>>]].is_white = pieces[self].is_white

OpponentAt(self, x, y) ==
    IF Empty(x, y) THEN FALSE
    ELSE pieces[board[<<x, y>>]].is_white # pieces[self].is_white

\* forward for a colour: white moves towards rank 0, black towards rank 7
Forward(is_white) == IF is_white THEN -1 ELSE 1

StartRank(is_white) == IF is_white THEN 6 ELSE 1

\* the conditions of an en passant capture, as the claim lists them
EnPassantConditions(self, px, py, x, y) ==
    /\ last_move # NoMove
    /\ history # <<>>
    /\ last_move = history[Len(history)]
    /\ LET mover == last_move[1]
           start == last_move[2]
           end == last_move[3]
       IN  /\ pieces[mover].type = "Pawn"
           /\ pieces[mover].is_white # pieces[self].is_white
           /\ start[1] = end[1]
           /\ end[2] - start[2] = 2 * Forward(pieces[mover].is_white)
           /\ end[2] = py
           /\ Abs(end[1] - px) = 1
           /\ Abs(x - px) = 1
           /\ y - py = Forward(pieces[self].is_white)
           /\ x = end[1]
           /\ y = end[2] - Forward(pieces[mover].is_white)

\* C1: in every position, for every pawn on the board and every destination,
\* en_passant answers true exactly when the last move is the immediately
\* preceding move, made by a pawn of the other colour as a two-rank step
\* forward that landed beside this pawn, and the destination is the square
\* that pawn passed over, one diagonal step forward; and the white pawn on
\* (4,3) may take on (3,2) after the black pawn went (3,1)->(3,3).
C1_EnPassantIff ==
    /\ \A self \in OnBoard("Pawn") : \A x \in Coords, y \in Coords :
          en_passant(self, pieces[self].x, pieces[self].y, x, y)
              <=> EnPassantConditions(self, pieces[self].x, pieces[self].y, x, y)
    /\ (/\ last_move = <<"bP", <<3, 1>>, <<3, 3>>>>
        /\ <<pieces["wP"].x, pieces["wP"].y>> = <<4, 3>>)
          => Pawn_legal_move("wP", 4, 3, 3, 2)

\* the en passant example of the specification has been played up to the capture
C1_Witness ==
    /\ last_move = <<"bP", <<3, 1>>, <<3, 3>>>>
    /\ board[<<4, 3>>] = "wP"
    /\ en_passant("wP", 4, 3, 3, 2)
    /\ ~en_passant("wP", 4, 3, 5, 2)

NoEnPassant(self) ==
    \A x \in Coords, y \in Coords : ~en_passant(self, pieces[self].x, pieces[self].y, x, y)

StepForward(self, px, py, x, y) ==
    x = px /\ y = py + Forward(pieces[self].is_white) /\ Empty(x, y)

DoubleStep(self, px, py, x, y) ==
    /\ x = px /\ y = py + 2 * Forward(pieces[self].is_white)
    /\ py = StartRank(pieces[self].is_white)
    /\ Empty(px, py + Forward(pieces[self].is_white))
    /\ Empty(x, y)

DiagonalCapture(self, px, py, x, y) ==
    /\ Abs(x - px) = 1 /\ y = py + Forward(pieces[self].is_white)
    /\ OpponentAt(self, x, y)

\* C2: for a pawn with no en passant available, legal_move is true exactly for
\* one step forward onto an empty square, two steps forward from the starting
\* rank over an empty square onto an empty square, and one diagonal step
\* forward onto an opponent's piece.
C2_PawnLegalMoveIff ==
    \A self \in OnBoard("Pawn") : NoEnPassant(self) =>
        \A x \in Coords, y \in Coords :
            LET px == pieces[self].x
                py == pieces[self].y
            IN  Pawn_legal_move(self, px, py, x, y)
                    <=> \/ StepForward(self, px, py, x, y)
                        \/ DoubleStep(self, px, py, x, y)
                        \/ DiagonalCapture(self, px, py, x, y)

\* the white pawn on its starting square can step, double step and capture,
\* and the black pawn is blocked by a piece in front of it
C2_Witness ==
    /\ NoEnPassant("wP") /\ NoEnPassant("bP")
    /\ board[<<4, 6>>] = "wP"
    /\ Pawn_legal_move("wP", 4, 6, 4, 5)
    /\ Pawn_legal_move("wP", 4, 6, 4, 4)
    /\ Pawn_legal_move("wP", 4, 6, 3, 5)
    /\ ~Pawn_legal_move("wP", 4, 6, 5, 5)
    /\ \E id \in OnBoard("Pawn") :
          /\ ~Empty(pieces[id].x, pieces[id].y + direction(id))
          /\ ~Pawn_legal_move(id, pieces[id].x, pieces[id].y,
                              pieces[id].x, pieces[id].y + direction(id))

KnightJump(px, py, x, y) ==
    <<Abs(x - px), Abs(y - py)>> \in {<<1, 2>>, <<2, 1>>}

\* C3: for every knight on the board and every destination, legal_move is true
\* exactly when the move is a knight's jump and the destination holds no piece
\* of the knight's colour; no other square is consulted.
C3_KnightLegalMoveIff ==
    \A self \in OnBoard("Knight") : \A x \in Coords, y \in Coords :
        Knight_legal_move(self, pieces[self].x, pieces[self].y, x, y)
            <=> (KnightJump(pieces[self].x, pieces[self].y, x, y) /\ ~OwnColourAt(self, x, y))

\* a knight with a jump onto its own pawn (refused), one onto an opponent's
\* piece (a capture) and one onto an empty square
C3_Witness ==
    \E self \in OnBoard("Knight") :
        LET px == pieces[self].x
            py == pieces[self].y
        IN  /\ \E x \in Coords, y \in Coords :
                  KnightJump(px, py, x, y) /\ OwnColourAt(self, x, y)
                      /\ ~Knight_legal_move(self, px, py, x, y)
            /\ \E x \in Coords, y \in Coords :
                  OpponentAt(self, x, y) /\ Knight_legal_move(self, px, py, x, y)
            /\ \E x \in Coords, y \in Coords :
                  Empty(x, y) /\ Knight_legal_move(self, px, py, x, y)

\* C4: in every position reached by committed moves, legal_move of a pawn or a
\* knight is false for every destination that holds a piece of its own colour,
\* the en passant branch included.
C4_NeverOntoOwnColour ==
    \A self \in OnBoard("Pawn") \cup OnBoard("Knight") : \A x \in Coords, y \in Coords :
        legal_move(self, pieces[self].x, pieces[self].y, x, y) => ~OwnColourAt(self, x, y)

\* after committed moves a pawn move is accepted by the en passant branch alone
C4_Witness ==
    /\ history # <<>>
    /\ \E self \in OnBoard("Pawn") : \E x \in Coords, y \in Coords :
          LET px == pieces[self].x
              py == pieces[self].y
          IN  /\ en_passant(self, px, py, x, y)
              /\ ~_moving_forward(self, px, py, x, y)
              /\ ~_capturing(self, px, py, x, y)
              /\ legal_move(self, px, py, x, y)
              /\ Empty(x, y)

\* C5: the squares a pawn controls are exactly its two diagonal-forward
\* squares, whatever stands on them.
C5_ControlsBothDiagonals ==
    \A self \in OnBoard("Pawn") : \A x \in Coords, y \in Coords :
        Pawn_is_controlled_square(self, pieces[self].x, pieces[self].y, x, y)
            <=> (Abs(x - pieces[self].x) = 1 /\ y - pieces[self].y = Forward(pieces[self].is_white))

\* C6: a call of legal_move or is_controlled_square, whatever it answers,
\* leaves the board, the last move, the history, the turn, the pending
\* promotion and every attribute of every piece as they were.
C6_CallsChangeNothing ==
    [][result' \in {"True", "False"} =>
          UNCHANGED <<pieces, board, last_move, history, white_to_move, awaiting>>]_vars

\* after a committed move a call has answered true
C6_Witness == result = "True" /\ history # <<>>

\* C7: the dialog calls promote at most once, only with a selection made, for
\* the pawn it was opened for (the pawn whose move is held), and with the
\* selected class, one of Queen, Rook, Bishop, Knight.
C7_PromoteOnlyOnSelection ==
    /\ [](Len(promote_calls) <= 1)
    /\ [](selected_promotion \in PromotionPieces \cup {NoSelection})
    /\ [][Len(promote_calls') > Len(promote_calls) =>
             /\ selected_promotion \in PromotionPieces
             /\ promote_calls' = <<<<ui_pawn, selected_promotion>>>>
             /\ awaiting # NoMove
             /\ awaiting[1] = ui_pawn]_vars

\* the dialog has promoted the white pawn to the Rook selected
C7_Witness == promote_calls = <<<<"wP", "Rook">>>> /\ after = 0

\* C8: while nothing is selected, also with the dialog closed, a poll stays
\* scheduled and nothing is promoted; once a class is selected the poll
\* promotes, clears the selection and schedules nothing more.
C8_PollHeldUntilSelection ==
    /\ []((window # "none" /\ selected_promotion = NoSelection /\ promote_calls = <<>>)
             => after = 1)
    /\ [][selected_promotion = NoSelection => Len(promote_calls') <= Len(promote_calls)]_vars
    /\ (selected_promotion # NoSelection)
          ~> (promote_calls # <<>> /\ selected_promotion = NoSelection /\ after = 0)

\* the dialog was closed without a selection and the poll is still scheduled
C8_Witness ==
    /\ window = "destroyed" /\ selected_promotion = NoSelection
    /\ promote_calls = <<>> /\ after = 1 /\ awaiting # NoMove

\* C9 as stated: the move by which a white pawn promotes ends on rank index 7.
C9_WhitePromotesOnRankSeven ==
    (awaiting # NoMove /\ pieces[awaiting[1]].is_white) => awaiting[3][2] = 7

\* C9 as amended: a white pawn never stands on rank index 7; the move by which
\* it promotes ends on rank index 0, and when Queen is selected the promotion
\* leaves a new white Queen on the destination, the pawn marked captured and
\* off the board.
C9_WhitePromotesOnRankZero ==
    /\ [](\A self \in OnBoard("Pawn") : pieces[self].is_white => pieces[self].y # 7)
    /\ []((awaiting # NoMove /\ pieces[awaiting[1]].is_white) => awaiting[3][2] = 0)
    /\ [][(/\ Len(promote_calls') > Len(promote_calls)
           /\ selected_promotion = "Queen"
           /\ pieces[ui_pawn].is_white) =>
             /\ awaiting[3][2] = 0
             /\ board'[awaiting[3]] \notin DOMAIN pieces
             /\ pieces'[board'[awaiting[3]]].type = "Queen"
             /\ pieces'[board'[awaiting[3]]].is_white
             /\ pieces'[ui_pawn].captured
             /\ \A sq \in Squares : board'[sq] # ui_pawn]_vars

\* the white pawn has gone to (4,0) and a Queen stands there in its place
C9_Witness ==
    /\ promote_calls = <<<<"wP", "Queen">>>>
    /\ pieces["wP"].captured
    /\ board[<<4, 0>>] = "wX"
    /\ pieces["wX"].type = "Queen"
    /\ last_move = <<"wP", <<4, 1>>, <<4, 0>>>>

\* C10: the moves-made counter of every piece is never negative and never
\* lower than it was, whatever is assigned through the setters.
C10_MovesMadeNeverDecreases ==
    [][\A self \in DOMAIN pieces :
          pieces'[self].moves_made >= 0 /\ pieces'[self].moves_made >= pieces[self].moves_made]_vars

\* C11: the coordinates of every piece are on the board in every state, and
\* an assignment rejected with TypeError or ValueError changes no piece.
C11_CoordinatesOnBoard ==
    /\ [](\A self \in DOMAIN pieces :
             pieces[self].x \in Coords /\ pieces[self].y \in Coords)
    /\ [][result' \in {"TypeError", "ValueError"} => pieces' = pieces]_vars

\* the forward direction and the starting rank of a team
ForwardOfTeam(team) == IF team = "ALLY" THEN -1 ELSE 1

StartRankOfTeam(team) == IF team = "ALLY" THEN 6 ELSE 1

\* a pawn's step from (px, py) to (x, y): at most one file aside and one rank
\* forward, or two ranks straight forward from the starting rank
ForwardStep(team, px, py, x, y) ==
    /\ Abs(x - px) <= 1
    /\ \/ y - py = ForwardOfTeam(team)
       \/ /\ y - py = 2 * ForwardOfTeam(team)
          /\ x = px
          /\ py = StartRankOfTeam(team)

\* C12: every move Pawn.legal_move accepts is a step forward for the pawn's
\* team (one rank, at most one file aside) or a double step straight ahead
\* from the team's starting rank, whatever the pawn's colour; and whenever a
\* committed move changes a pawn's coordinate, its rank has moved forward by
\* such a step and its team is the same.
C12_PawnOnlyForward ==
    /\ [](\A self \in OnBoard("Pawn") : \A x \in Coords, y \in Coords :
             Pawn_legal_move(self, pieces[self].x, pieces[self].y, x, y)
                => ForwardStep(pieces[self].team, pieces[self].x, pieces[self].y, x, y))
    /\ [][\A self \in DOMAIN pieces :
             (/\ pieces[self].type = "Pawn"
              /\ <<pieces'[self].x, pieces'[self].y>> # <<pieces[self].x, pieces[self].y>>)
                => /\ pieces'[self].team = pieces[self].team
                   /\ ForwardStep(pieces[self].team, pieces[self].x, pieces[self].y,
                                  pieces'[self].x, pieces'[self].y)]_vars

\* a white pawn of team OPPONENT has made its double step down the board and
\* a black pawn of team ALLY beside it may take it en passant, up the board
C12_Witness ==
    /\ pieces["wP"].is_white /\ pieces["wP"].team = "OPPONENT"
    /\ last_move = <<"wP", <<4, 1>>, <<4, 3>>>>
    /\ <<pieces["wP"].x, pieces["wP"].y>> = <<4, 3>>
    /\ ~pieces["bP"].is_white /\ pieces["bP"].team = "ALLY"
    /\ <<pieces["bP"].x, pieces["bP"].y>> = <<3, 3>>
    /\ Pawn_legal_move("bP", 3, 3, 4, 2)

====
